---- MODULE Spec2Model ----
(***************************************************************************)
(* A model of the search-and-scrape service: the text sanitizer and the    *)
(* proxy pool of utils.py, the result extraction and the provider          *)
(* orchestration of scraper.py (UniversalScraper, Playwright) and          *)
(* enhanced_scraper.py (EnhancedUndetectedScraper, one-worker executor),   *)
(* and the /search handler of main.py.                                     *)
(*                                                                         *)
(* Texts are sequences of one-character strings, so that the sanitizer is  *)
(* computed character by character as str.split / str.replace / str.strip  *)
(* compute it.                                                             *)
(***************************************************************************)
EXTENDS Integers, Sequences, FiniteSets, TLC

VARIABLES
    \* ---- utils.sanitize_text applied once and twice
    sanIn, sanOut, sanOut2, sanPc,
    \* ---- utils.ProxyRotator: self.proxies, self.failed_proxies, and the last
    \* call made on it with what it returned and found
    proxies, failed_proxies, lastCall, lastProxy, allFailedBefore,
    \* ---- result extraction: the scraper class, the provider path, the
    \* containers of the fetched markup in document order, num_results, and
    \* the organic result list search_comprehensive returns
    extScraper, extPath, extMarkup, extNum, extOut, extPc,
    \* ---- the /search requests in progress on the global scraper instance:
    \* its class, whether its browser handle is set, the coroutine of each
    \* request, and the one-worker executor of EnhancedUndetectedScraper
    \* (pending jobs, the job the worker runs, the worker's position)
    \* the texts of the question elements of the fetched page, and the related
    \* questions returned
    extQs, extQOut,
    scraper, browserUp, req, exQueue, exJob, exPc,
    \* self.last_search_url of the shared scraper instance
    last_search_url,
    \* ---- scrape_url: the scraper class, the fetched page (its elements in
    \* document order) and the ScrapedContent returned
    scrScraper, scrPage, scrOut, scrPc,
    \* ---- the block check: the fetched Google markup and its classification
    clsMarkup, clsOut, clsPc,
    \* ---- the browser of the scraper instance and the identities of its
    \* fetches: the scraper class, the launched browser (the proxy and user
    \* agent it was launched with), the number of launches, and the session-
    \* variant fetch attempts made so far
    lchScraper, browser, launches, attempts,
    \* ---- the HTTP requests served one after the other: the request in
    \* progress, performance_metrics["failed_requests"], the number of
    \* requests answered and of those answered with a status >= 400
    apiReq, failed_requests, served, errors,
    \* ---- two /search requests that re-initialise the browser: the scraper
    \* class, self.browser / self.driver and self.playwright (0 is None), the
    \* browser and playwright instances started so far, the coroutine of
    \* each request, and the pending jobs of the enhanced scraper's executor
    reScraper, handle, playwright, instances, drivers, rq, jobs,
    \* ---- /api/bulk-search: the queries of the request, the results list,
    \* the outcome of each search run so far, the position of the handler,
    \* and the response (status and bulk_search_metadata)
    bulkQueries, bulkResults, bulkOutcomes, bulkPc, bulkResponse

sanVars == <<sanIn, sanOut, sanOut2, sanPc>>
proxyVars == <<proxies, failed_proxies, lastCall, lastProxy, allFailedBefore>>
extVars == <<extScraper, extPath, extMarkup, extQs, extNum, extOut, extQOut, extPc>>
srchVars == <<scraper, browserUp, req, exQueue, exJob, exPc, last_search_url>>
scrVars == <<scrScraper, scrPage, scrOut, scrPc>>
clsVars == <<clsMarkup, clsOut, clsPc>>
lchVars == <<lchScraper, browser, launches, attempts>>
apiVars == <<apiReq, failed_requests, served, errors>>
reVars == <<reScraper, handle, playwright, instances, drivers, rq, jobs>>
bulkVars == <<bulkQueries, bulkResults, bulkOutcomes, bulkPc, bulkResponse>>
vars == <<sanVars, proxyVars, extVars, srchVars, scrVars, clsVars, lchVars, apiVars, reVars, bulkVars>>

(***************************************************************************)
(* utils.py: sanitize_text                                                 *)
(***************************************************************************)

\* The characters str.split() and str.strip() treat as whitespace.
IsSpace(c) == c \in {" ", "\t", "\n"}

\* text.split(): the maximal runs of non-whitespace characters, in order.
WordStarts(text) ==
    {i \in 1..Len(text) : ~IsSpace(text[i]) /\ (i = 1 \/ IsSpace(text[i - 1]))}

WordEnd(text, s) ==
    CHOOSE e \in s..Len(text) :
        /\ \A k \in s..e : ~IsSpace(text[k])
        /\ e = Len(text) \/ IsSpace(text[e + 1])

Split(text) ==
    LET starts == WordStarts(text)
    IN  [r \in 1..Cardinality(starts) |->
            LET s == CHOOSE i \in starts : Cardinality({j \in starts : j <= i}) = r
            IN  SubSeq(text, s, WordEnd(text, s))]

\* ' '.join(words), for the words a..b
RECURSIVE JoinRange(_, _, _)
JoinRange(words, a, b) ==
    IF a > b THEN <<>>
    ELSE IF a = b THEN words[a]
    ELSE LET m == (a + b) \div 2
         IN  JoinRange(words, a, m) \o <<" ">> \o JoinRange(words, m + 1, b)

JoinSpace(words) == JoinRange(words, 1, Len(words))

\* pattern occurs in text at index i
MatchAt(text, i, pattern) ==
    /\ i + Len(pattern) - 1 <= Len(text)
    /\ \A k \in 1..Len(pattern) : text[i + k - 1] = pattern[k]

\* text contains pattern somewhere
Contains(text, pattern) == \E i \in 1..Len(text) : MatchAt(text, i, pattern)

\* text.find(pattern, i): the first occurrence at or after index i, 0 if none
FindFrom(text, i, pattern) ==
    LET found == {m \in i..Len(text) : MatchAt(text, m, pattern)}
    IN  IF found = {} THEN 0
        ELSE CHOOSE m \in found : \A n \in found : m <= n

\* text.replace(pattern, ''): the non-overlapping occurrences, found left to
\* right in the ORIGINAL text, are dropped; the result is not scanned again.
RECURSIVE ReplaceFrom(_, _, _, _)
ReplaceFrom(text, i, pattern, acc) ==
    LET m == FindFrom(text, i, pattern)
    IN  IF m = 0 THEN acc \o SubSeq(text, i, Len(text))
        ELSE ReplaceFrom(text, m + Len(pattern), pattern,
                         acc \o SubSeq(text, i, m - 1))

Remove(text, pattern) == ReplaceFrom(text, 1, pattern, <<>>)

\* text.strip()
RECURSIVE FirstNonSpace(_, _)
FirstNonSpace(text, i) ==
    IF i > Len(text) \/ ~IsSpace(text[i]) THEN i ELSE FirstNonSpace(text, i + 1)

RECURSIVE LastNonSpace(_, _)
LastNonSpace(text, i) ==
    IF i < 1 \/ ~IsSpace(text[i]) THEN i ELSE LastNonSpace(text, i - 1)

Strip(text) ==
    LET a == FirstNonSpace(text, 1)
        b == LastNonSpace(text, Len(text))
    IN  IF a > b THEN <<>> ELSE SubSeq(text, a, b)

\* the list unwanted_patterns, in its order
unwanted_patterns == <<
    <<"S", "k", "i", "p", " ", "t", "o", " ", "m", "a", "i", "n", " ",
      "c", "o", "n", "t", "e", "n", "t">>,
    <<"A", "c", "c", "e", "p", "t", " ", "c", "o", "o", "k", "i", "e", "s">>,
    <<"P", "r", "i", "v", "a", "c", "y", " ", "p", "o", "l", "i", "c", "y">>,
    <<"T", "e", "r", "m", "s", " ", "o", "f", " ", "s", "e", "r", "v", "i",
      "c", "e">>,
    <<"C", "o", "o", "k", "i", "e", " ", "n", "o", "t", "i", "c", "e">> >>

\* for pattern in unwanted_patterns: text = text.replace(pattern, '')
RECURSIVE RemoveAll(_, _)
RemoveAll(text, i) ==
    IF i > Len(unwanted_patterns) THEN text
    ELSE RemoveAll(Remove(text, unwanted_patterns[i]), i + 1)

sanitize_text(text) ==
    IF text = <<>> THEN <<>>
    ELSE Strip(RemoveAll(JoinSpace(Split(text)), 1))

(***************************************************************************)
(* Inputs of the sanitizer: concatenations of at most MaxFrags fragments.  *)
(* The fragments hold plain text, the kinds of whitespace, boilerplate     *)
(* and the two halves of a boilerplate substring.                          *)
(***************************************************************************)
MaxFrags == 3

Fragments == {
    <<"a">>,
    <<" ", "b", " ">>,
    <<"\t">>,
    <<"A", "c", "c", "e", "p", "t", " ", "c", "o", "o", "k", "i", "e", "s">>,
    <<"A", "c", "c", "e", "p", "t", " ">>,
    <<"c", "o", "o", "k", "i", "e", "s">>,
    <<"S", "k", "i", "p", " ", "t", "o", " ", "m", "a", "i", "n", " ",
      "c", "o", "n", "t", "e", "n", "t">> }

RECURSIVE Concat(_, _)
Concat(parts, i) ==
    IF i > Len(parts) THEN <<>> ELSE parts[i] \o Concat(parts, i + 1)

SanInputs ==
    { Concat(fs, 1) : fs \in UNION { [1..n -> Fragments] : n \in 0..MaxFrags } }

SanIdle ==
    /\ sanIn = <<>>
    /\ sanOut = <<>>
    /\ sanOut2 = <<>>
    /\ sanPc = "idle"

SanInit ==
    /\ sanIn \in SanInputs
    /\ sanOut = <<>>
    /\ sanOut2 = <<>>
    /\ sanPc = "input"

\* y = sanitize_text(x)
Sanitize ==
    /\ sanPc = "input"
    /\ sanOut' = sanitize_text(sanIn)
    /\ sanPc' = "once"
    /\ UNCHANGED <<sanIn, sanOut2>>

\* z = sanitize_text(y)
SanitizeAgain ==
    /\ sanPc = "once"
    /\ sanOut2' = sanitize_text(sanOut)
    /\ sanPc' = "twice"
    /\ UNCHANGED <<sanIn, sanOut>>

(***************************************************************************)
(* utils.py: ProxyRotator                                                  *)
(***************************************************************************)
MaxProxies == 3

\* None, and every other falsy argument ('')
NoProxy == 0

ProxyNames == 1..MaxProxies

\* a proxy string that is not in self.proxies
ForeignProxy == MaxProxies + 1

ProxyIdle ==
    /\ proxies = {}
    /\ failed_proxies = {}
    /\ lastCall = "none"
    /\ lastProxy = NoProxy
    /\ allFailedBefore = FALSE

\* __init__: the configured list (PROXY_LIST), no proxy failed yet
ProxyInit ==
    /\ proxies \in SUBSET ProxyNames
    /\ failed_proxies = {}
    /\ lastCall = "none"
    /\ lastProxy = NoProxy
    /\ allFailedBefore = FALSE

\* self.enabled
ProxyEnabled(ps) == ps # {}

\* a variant of the reset that offers all proxies without clearing the
\* failed set
ResetNoClear(ps, failed) ==
    LET available == ps \ failed
    IN  [failed |-> failed,
         available |-> IF available = {} THEN ps ELSE available]

\* available_proxies and self.failed_proxies after the reset of
\* get_random_proxy: all proxies failed -> clear the failed set and offer all
AvailableProxies(ps, failed) ==
    LET available == ps \ failed
    IN  IF available = {}
        THEN [failed |-> {}, available |-> ps]
        ELSE [failed |-> failed, available |-> available]

\* get_random_proxy(): None without proxies, else random.choice(available)
get_random_proxy ==
    /\ lastCall' = "get"
    /\ allFailedBefore' = (ProxyEnabled(proxies) /\ proxies \subseteq failed_proxies)
    /\ IF ~ProxyEnabled(proxies)
       THEN /\ lastProxy' = NoProxy
            /\ UNCHANGED failed_proxies
       ELSE LET r == AvailableProxies(proxies, failed_proxies)
            IN  /\ failed_proxies' = r.failed
                /\ lastProxy' \in r.available
    /\ UNCHANGED proxies

\* mark_proxy_failed(proxy): a falsy proxy is ignored
mark_proxy_failed ==
    \E proxy \in ProxyNames \cup {ForeignProxy, NoProxy} :
        /\ failed_proxies' = IF proxy # NoProxy
                             THEN failed_proxies \cup {proxy}
                             ELSE failed_proxies
        /\ lastCall' = "mark"
        /\ UNCHANGED <<proxies, lastProxy, allFailedBefore>>

(***************************************************************************)
(* scraper.py / enhanced_scraper.py: extraction of the organic results     *)
(*                                                                         *)
(* The markup is the sequence, in document order, of the elements the      *)
(* selectors can match. Every element has the length of its snippet text   *)
(* (snippet). A Google element is [cls, title, href, snippet]:             *)
(*   cls    "g" (div.g), "rc" (div.rc), "ved" (div[data-ved]), "div" (a    *)
(*          plain div), "bare" (an anchor that is in no div)               *)
(*   title  "h3long" (an h3 of >= 10 characters), "h3mid" (5..9),          *)
(*          "h3short" (< 5), "cls" (a .LC20lb element, no h3), "none"      *)
(*   href   of its anchor: an external URL ("u1", "u2"), "google" (a       *)
(*          google.com URL), "rel" (not starting with http), "none"        *)
(* A Bing element (.b_algo) is [titleLink, href, snippet]: has an 'h2 a',   *)
(* and its href: "u1", "u2", "bing" (a bing.com URL), "rel", "ck_u1" (a     *)
(* bing.com/ck/a redirect that decodes to u1), "ck_bad" (one that does     *)
(* not decode).                                                            *)
(***************************************************************************)
MaxContainers == 3
MaxNum == 3

\* if len(results) >= 20: break
ResultCap == 20
\* if len(results) >= 10: break  (the last-resort scan)
FallbackCap == 10

Scrapers == {"universal", "enhanced"}

\* snippet[:300]
SnippetLimit == 300

GoogleKinds == {
    [cls |-> "g",    title |-> "h3long",  href |-> "u1",     snippet |-> 0],
    [cls |-> "g",    title |-> "h3mid",   href |-> "u2",     snippet |-> SnippetLimit + 1],
    [cls |-> "g",    title |-> "h3short", href |-> "u1",     snippet |-> 0],
    [cls |-> "g",    title |-> "h3long",  href |-> "google", snippet |-> 0],
    [cls |-> "rc",   title |-> "h3long",  href |-> "u1",     snippet |-> SnippetLimit + 1],
    [cls |-> "rc",   title |-> "h3long",  href |-> "rel",    snippet |-> 0],
    [cls |-> "ved",  title |-> "h3long",  href |-> "u2",     snippet |-> SnippetLimit + 1],
    [cls |-> "div",  title |-> "h3long",  href |-> "u1",     snippet |-> SnippetLimit],
    [cls |-> "bare", title |-> "h3long",  href |-> "u2",     snippet |-> SnippetLimit + 1],
    [cls |-> "bare", title |-> "h3mid",   href |-> "u1",     snippet |-> 0] }

BingKinds == {
    [titleLink |-> TRUE,  href |-> "u1",     snippet |-> 0],
    [titleLink |-> TRUE,  href |-> "u2",     snippet |-> SnippetLimit + 1],
    [titleLink |-> TRUE,  href |-> "bing",   snippet |-> 0],
    [titleLink |-> TRUE,  href |-> "rel",    snippet |-> 0],
    [titleLink |-> TRUE,  href |-> "ck_u1",  snippet |-> SnippetLimit],
    [titleLink |-> TRUE,  href |-> "ck_bad", snippet |-> 0],
    [titleLink |-> FALSE, href |-> "u1",     snippet |-> 0] }

\* href.startswith('http')
StartsWithHttp(href) == href \notin {"rel", "none"}

\* the selector_strategies of the scraper class: UniversalScraper has four,
\* EnhancedUndetectedScraper the first three
NumStrategies(kind) == IF kind = "universal" THEN 4 ELSE 3

\* soup.select(strategy['container'])
MatchesContainer(k, c) ==
    CASE k = 1 -> c.cls = "g"
      [] k = 2 -> c.cls \in {"g", "rc"}
      [] k = 3 -> c.cls = "ved" /\ c.title \in {"h3long", "h3mid", "h3short"}
      [] k = 4 -> /\ c.cls \in {"g", "rc", "ved", "div"}
                  /\ c.title \in {"h3long", "h3mid", "h3short"}
                  /\ StartsWithHttp(c.href)

\* container.select_one(strategy['title']) found an element whose text has
\* at least 5 characters
TitleAccepted(k, c) ==
    \/ c.title \in {"h3long", "h3mid"}
    \/ k = 1 /\ c.title = "cls"

\* any(domain in href.lower() for domain in ['google.com', ...])
GoogleExcluded(href) == href = "google"

\* any(result.link == href for result in results)
HasLink(results, href) == \E i \in 1..Len(results) : results[i].link = href

\* the length of snippet[:300] for a snippet of the given length
FirstChars(length) == IF length <= SnippetLimit THEN length ELSE SnippetLimit

\* a variant of the append that leaves the position counter alone
AppendKeepPosition(acc, href, k, snippet) ==
    [results |-> Append(acc.results,
                        [position |-> acc.position, link |-> href,
                         strategy |-> k, snippet |-> snippet]),
     position |-> acc.position]

\* results.append(OrganicResult(position=position, ...)); position += 1
AppendResult(acc, href, k, snippet) ==
    [results |-> Append(acc.results,
                        [position |-> acc.position, link |-> href,
                         strategy |-> k, snippet |-> snippet]),
     position |-> acc.position + 1]

\* one pass of 'for container in containers' of strategy k, from element i
RECURSIVE ScanStrategy(_, _, _, _)
ScanStrategy(markup, i, k, acc) ==
    IF i > Len(markup) THEN acc
    ELSE LET c == markup[i]
         IN  IF /\ MatchesContainer(k, c)
                /\ TitleAccepted(k, c)
                /\ StartsWithHttp(c.href)
                /\ ~GoogleExcluded(c.href)
                /\ ~HasLink(acc.results, c.href)
             THEN LET added == AppendResult(acc, c.href, k, FirstChars(c.snippet))
                  IN  IF Len(added.results) >= ResultCap
                      THEN added
                      ELSE ScanStrategy(markup, i + 1, k, added)
             ELSE ScanStrategy(markup, i + 1, k, acc)

\* a variant of the loop over the strategies without 'if results: break'
RECURSIVE CascadeNoBreak(_, _, _, _)
CascadeNoBreak(markup, k, last, acc) ==
    IF k > last THEN acc
    ELSE CascadeNoBreak(markup, k + 1, last, ScanStrategy(markup, 1, k, acc))

\* 'for strategy_idx, strategy in enumerate(selector_strategies)', with
\* 'if results: break' after each strategy
RECURSIVE Cascade(_, _, _, _)
Cascade(markup, k, last, acc) ==
    IF k > last THEN acc
    ELSE LET after == ScanStrategy(markup, 1, k, acc)
         IN  IF after.results # <<>> THEN after
             ELSE Cascade(markup, k + 1, last, after)

\* _extract_google_fallback_results: every anchor with an http href outside
\* Google, whose own or parent's h3 has at least 10 characters
RECURSIVE ScanAnchors(_, _, _)
ScanAnchors(markup, i, acc) ==
    IF i > Len(markup) THEN acc
    ELSE LET c == markup[i]
         IN  IF /\ StartsWithHttp(c.href)
                /\ ~GoogleExcluded(c.href)
                /\ c.title = "h3long"
                /\ ~HasLink(acc.results, c.href)
             THEN LET added == AppendResult(acc, c.href, 0, FirstChars(c.snippet))
                  IN  IF Len(added.results) >= FallbackCap
                      THEN added
                      ELSE ScanAnchors(markup, i + 1, added)
             ELSE ScanAnchors(markup, i + 1, acc)

EmptyAcc == [results |-> <<>>, position |-> 1]

\* _extract_google_organic_results_enhanced of the scraper class; only
\* UniversalScraper's runs the last-resort scan when the cascade found nothing
ExtractGoogle(kind, markup) ==
    LET found == Cascade(markup, 1, NumStrategies(kind), EmptyAcc).results
    IN  IF found = <<>> /\ kind = "universal"
        THEN ScanAnchors(markup, 1, EmptyAcc).results
        ELSE found

\* _decode_bing_redirect(href) or href
DecodeBingRedirect(href) == IF href = "ck_u1" THEN "u1" ELSE href

\* 'bing.com' in href.lower() or 'microsoft.com' in href.lower()
BingExcluded(href) == href \in {"bing", "ck_u1", "ck_bad"}

\* _extract_bing_organic_results of the scraper class: UniversalScraper
\* decodes redirects and skips Bing's own domains, EnhancedUndetectedScraper
\* takes the href as it is; neither looks at the links already accepted
RECURSIVE ScanBing(_, _, _, _)
ScanBing(kind, markup, i, acc) ==
    IF i > Len(markup) THEN acc
    ELSE LET c == markup[i]
             href == IF kind = "universal"
                     THEN DecodeBingRedirect(c.href) ELSE c.href
         IN  IF /\ c.titleLink
                /\ StartsWithHttp(c.href)
                /\ (kind = "universal" => ~BingExcluded(href))
             THEN ScanBing(kind, markup, i + 1, AppendResult(acc, href, 0, c.snippet))
             ELSE ScanBing(kind, markup, i + 1, acc)

ExtractBing(kind, markup) == ScanBing(kind, markup, 1, EmptyAcc).results

\* organic_results[:num_results]
Truncate(results, n) ==
    IF Len(results) <= n THEN results ELSE SubSeq(results, 1, n)

MarkupsOf(kinds) == UNION { [1..n -> kinds] : n \in 0..MaxContainers }

\* the i-th of the distinct external URLs of a long result page
Url(i) == "u" \o ToString(i)

\* a long result page: n result elements of one kind ("g": .g containers,
\* "bare": anchors in no container, "b_algo": Bing containers), each with a
\* title and a link of its own
MaxLong == 21

LongMarkup(n, cls) ==
    [i \in 1..n |->
        IF cls = "b_algo" THEN [titleLink |-> TRUE, href |-> Url(i), snippet |-> 0]
        ELSE [cls |-> cls, title |-> "h3long", href |-> Url(i), snippet |-> 0]]

LongMarkups(path) ==
    {LongMarkup(n, cls) : n \in (MaxContainers + 1)..MaxLong,
                          cls \in IF path = "google" THEN {"g", "bare"}
                                                     ELSE {"b_algo"}}

\* the texts of the elements the related-question selectors match
MaxQuestions == 2
MaxLongQs == 11

\* return questions[:10]
QuestionCap == 10
\* len(text) > 10
MinQuestionLen == 10

QuestionTexts == {
    <<"W", "h", "a", "t", " ", "i", "s", " ", "i", "t", "?">>,
    <<"W", "h", "y", " ", "i", "s", " ", "i", "t", "?">>,
    <<"I", "s", " ", "i", "t", "?", " ", "Y", "e", "s", " ", "i", "t", " ", "i", "s">>,
    <<"N", "o", "t", " ", "a", " ", "q", "u", "e", "s", "t", "i", "o", "n">>,
    <<>> }

QuestionMarkups ==
    UNION { [1..n -> QuestionTexts] : n \in 0..MaxQuestions }
    \cup { [i \in 1..n |-> <<"W", "h", "a", "t", " ", "i", "s", " ", "i", "t", "?">>] :
               n \in (MaxQuestions + 1)..MaxLongQs }

\* text.endswith('?')
EndsWithQuestionMark(text) == text # <<>> /\ text[Len(text)] = "?"

\* '?' in text
HasQuestionMark(text) == \E i \in 1..Len(text) : text[i] = "?"

\* _extract_google_related_questions: if text and text.endswith('?') and
\* len(text) > 10
IsGoogleQuestion(text) ==
    text # <<>> /\ EndsWithQuestionMark(text) /\ Len(text) > MinQuestionLen

\* _extract_bing_related_questions: if text and '?' in text
IsBingQuestion(text) == text # <<>> /\ HasQuestionMark(text)

\* questions[:10]
FirstQuestions(questions) ==
    IF Len(questions) <= QuestionCap THEN questions
    ELSE SubSeq(questions, 1, QuestionCap)

ExtractGoogleQuestions(texts) == FirstQuestions(SelectSeq(texts, IsGoogleQuestion))

ExtractBingQuestions(texts) == FirstQuestions(SelectSeq(texts, IsBingQuestion))

ExtIdle ==
    /\ extScraper = "none"
    /\ extPath = "none"
    /\ extMarkup = <<>>
    /\ extQs = <<>>
    /\ extNum = 0
    /\ extOut = <<>>
    /\ extQOut = <<>>
    /\ extPc = "idle"

\* a fetched page of either provider, and the num_results of the request
ExtInit ==
    /\ extScraper \in Scrapers
    /\ extPath \in {"google", "bing"}
    /\ extMarkup \in (IF extPath = "google" THEN MarkupsOf(GoogleKinds)
                                          ELSE MarkupsOf(BingKinds))
                     \cup LongMarkups(extPath)
    /\ extQs \in QuestionMarkups
    /\ extQs = <<>> \/ extMarkup = <<>>
    /\ extNum \in (IF Len(extMarkup) <= MaxContainers THEN 1..MaxNum
                  ELSE (ResultCap - 1)..MaxLong)
    /\ extOut = <<>>
    /\ extQOut = <<>>
    /\ extPc = "fetched"

\* _search_google / _perform_google_search:
\*   return organic_results[:num_results], ...
ReturnGoogleResults ==
    /\ extPc = "fetched"
    /\ extPath = "google"
    /\ extOut' = Truncate(ExtractGoogle(extScraper, extMarkup), extNum)
    /\ extQOut' = ExtractGoogleQuestions(extQs)
    /\ extPc' = "returned"
    /\ UNCHANGED <<extScraper, extPath, extMarkup, extQs, extNum>>

\* _search_bing / _search_bing_enhanced:
\*   return organic_results[:num_results], ...
ReturnBingResults ==
    /\ extPc = "fetched"
    /\ extPath = "bing"
    /\ extOut' = Truncate(ExtractBing(extScraper, extMarkup), extNum)
    /\ extQOut' = ExtractBingQuestions(extQs)
    /\ extPc' = "returned"
    /\ UNCHANGED <<extScraper, extPath, extMarkup, extQs, extNum>>

(***************************************************************************)
(* main.py search_serp, scraper.py _search_google / _search_bing,          *)
(* enhanced_scraper.py _search_google_enhanced / _perform_google_search    *)
(*                                                                         *)
(* A request is the coroutine search_comprehensive runs inside             *)
(* asyncio.wait_for(..., timeout=30.0). Its pc names the await it is       *)
(* suspended at:                                                           *)
(*   "ctx"   browser.new_context          "page"  context.new_page, routes *)
(*   "home"  page.goto(google.com)        "sleep" asyncio.sleep            *)
(*   "nav"   page.goto(search_url) and page.content()                      *)
(*   "retry" the typed-query path: goto, wait_for_selector, type, Enter,   *)
(*           wait_for_load_state, page.content()                           *)
(*   "wait"  the wait_for_selector loop over result_selectors              *)
(*   "read"  the final page.content() and the extraction                   *)
(*   "bing"  the httpx request of _search_bing                             *)
(*   "close_page", "close_ctx"  the finally block                          *)
(*   "e_wait" the await of loop.run_in_executor (EnhancedUndetectedScraper) *)
(* The result of a request is "google" (the triple extracted from the page *)
(* Google returned), "bing" (the triple extracted from Bing's page),       *)
(* "empty" (the literal [], [], None), "raised" (an exception left         *)
(* search_comprehensive) or "cancelled" (CancelledError left it).          *)
(***************************************************************************)
NumReqs == 2

Reqs == 1..NumReqs

\* no job: the worker thread is idle
NoJob == 0

\* the awaits of UniversalScraper that are operations on the shared browser
BrowserPcs ==
    {"ctx", "page", "home", "nav", "retry", "wait", "read",
     "close_page", "close_ctx"}

\* the awaits the 30-second timeout of wait_for can interrupt
AwaitPcs == BrowserPcs \cup {"sleep", "bing", "e_wait"}

\* self.last_search_url = None
NoUrl == <<0, "none">>

\* the search URL of request r on a provider; the requests carry queries of
\* their own
SearchUrl(r, provider) == <<r, provider>>

IdleReq ==
    [pc |-> "idle", engine |-> "none", hasCtx |-> FALSE, hasPage |-> FALSE,
     blocked1 |-> FALSE, blocked2 |-> FALSE, googleFailed |-> FALSE,
     fallback |-> FALSE, bing |-> "no", future |-> "none",
     result |-> "none", timedOut |-> FALSE, cancelled |-> FALSE,
     bingAfterTimeout |-> FALSE, status |-> 0]

SrchIdle ==
    /\ scraper = "none"
    /\ browserUp = FALSE
    /\ req = <<>>
    /\ exQueue = <<>>
    /\ exJob = NoJob
    /\ exPc = "idle"
    /\ last_search_url = NoUrl

\* lifespan(): scraper = EnhancedUndetectedScraper() or UniversalScraper();
\* self.browser / self.driver is set, or None after a failed start or cleanup
SrchInit ==
    /\ scraper \in Scrapers
    /\ browserUp \in BOOLEAN
    /\ req = [r \in Reqs |-> IdleReq]
    /\ exQueue = <<>>
    /\ exJob = NoJob
    /\ exPc = "idle"
    /\ last_search_url = NoUrl

\* search_serp: the response or the HTTPException the handler ends with
StatusOf(result) ==
    CASE result = "cancelled" -> 504
      [] result = "raised"    -> 500
      [] OTHER                -> 200

\* the coroutine has returned or raised: wait_for hands the outcome on
Finished(q, result) ==
    [q EXCEPT !.pc = "done", !.result = result, !.status = StatusOf(result)]

\* search_serp builds the response of request r in this step:
\* SearchMetadata(..., engine_url=scraper.get_last_search_url())
Responds(r) == req[r].pc # "done" /\ req'[r].pc = "done" /\ req'[r].status = 200

engine_url == last_search_url

\* the finally block of _search_google: close the page and the context that
\* exist, then return or re-raise
EnterFinally(q, result) ==
    IF q.hasPage THEN [q EXCEPT !.pc = "close_page", !.result = result]
    ELSE IF q.hasCtx THEN [q EXCEPT !.pc = "close_ctx", !.result = result]
    ELSE Finished(q, result)

\* 'except Exception' of _search_google: return await self._search_bing(...)
FallBackToBing(q) ==
    [q EXCEPT !.pc = "bing", !.googleFailed = TRUE, !.fallback = TRUE,
              !.bing = "running", !.bingAfterTimeout = q.timedOut]

\* a variant of _search_bing without its 'except Exception'
BingResultUncaught(outcome) == IF outcome = "ok" THEN "bing" ELSE "raised"

\* what _search_bing returns for the outcome of its httpx request: the
\* extracted triple, or [], [], None from its 'except Exception'
BingResult(outcome) == IF outcome = "ok" THEN "bing" ELSE "empty"

\* 'except Exception' does not catch asyncio.CancelledError (a BaseException);
\* the bare 'except:' around wait_for_selector catches everything
CaughtByExceptException(exc) == exc # "CancelledError"

CaughtAt(pc, exc) ==
    IF pc = "wait" THEN TRUE ELSE CaughtByExceptException(exc)

\* search_serp -> search_comprehensive(query, engine, num_results)
StartSearch(r) ==
    \E engine \in {"google", "bing"} :
        /\ req[r].pc = "idle"
        \* the requests are numbered in the order of their arrival
        /\ \A p \in Reqs : p < r => req[p].pc # "idle"
        /\ LET q == [req[r] EXCEPT !.engine = engine]
           IN  IF engine = "bing"
               THEN /\ req' = [req EXCEPT ![r] =
                                  [q EXCEPT !.pc = "bing", !.bing = "running"]]
                    /\ last_search_url' = SearchUrl(r, "bing")
                    /\ UNCHANGED exQueue
               ELSE IF scraper = "universal"
               THEN \* self.browser.new_context on None raises inside the try
                    /\ req' = [req EXCEPT ![r] =
                                  IF browserUp THEN [q EXCEPT !.pc = "ctx"]
                                  ELSE FallBackToBing(q)]
                    /\ last_search_url' =
                           SearchUrl(r, IF browserUp THEN "google" ELSE "bing")
                    /\ UNCHANGED exQueue
               ELSE \* loop.run_in_executor(self.executor, ...)
                    /\ req' = [req EXCEPT ![r] =
                                  [q EXCEPT !.pc = "e_wait", !.future = "pending"]]
                    /\ last_search_url' = SearchUrl(r, "google")
                    /\ exQueue' = Append(exQueue, r)
        /\ UNCHANGED <<scraper, browserUp, exJob, exPc>>

\* a variant of _search_google that takes the search-box path after every
\* navigation, whatever the page says
AfterNavigationNoCheck(q, blocked) ==
    [q EXCEPT !.pc = "retry", !.blocked1 = blocked]

\* _search_google after page.goto(search_url): on a block page the query is
\* typed into the search box of the home page, otherwise the results are awaited
AfterNavigation(q, blocked) ==
    IF blocked THEN [q EXCEPT !.pc = "retry", !.blocked1 = TRUE]
    ELSE [q EXCEPT !.pc = "wait"]

\* UniversalScraper._search_google: the awaited operation completes
GoogleStep(r) ==
    LET q == req[r]
    IN  /\ q.pc \in {"ctx", "page", "home", "sleep", "nav", "retry", "wait", "read"}
        /\ \E blocked \in (IF q.pc \in {"nav", "retry"} THEN BOOLEAN ELSE {FALSE}) :
             req' = [req EXCEPT ![r] =
                CASE q.pc = "ctx"   -> [q EXCEPT !.pc = "page", !.hasCtx = TRUE]
                  [] q.pc = "page"  -> [q EXCEPT !.pc = "home", !.hasPage = TRUE]
                  [] q.pc = "home"  -> [q EXCEPT !.pc = "sleep"]
                  [] q.pc = "sleep" -> [q EXCEPT !.pc = "nav"]
                  \* "recaptcha" in content.lower() or "unusual traffic" in ...
                  [] q.pc = "nav"   -> AfterNavigation(q, blocked)
                  \* content = await page.content(): not checked again
                  [] q.pc = "retry" -> [q EXCEPT !.pc = "wait", !.blocked2 = blocked]
                  [] q.pc = "wait"  -> [q EXCEPT !.pc = "read"]
                  [] q.pc = "read"  -> EnterFinally(q, "google")]
        /\ UNCHANGED <<scraper, browserUp, exQueue, exJob, exPc, last_search_url>>

\* UniversalScraper._search_google: the awaited operation raises (navigation
\* timeout, transport error); inside the result_selectors loop it is swallowed
GoogleRaise(r) ==
    LET q == req[r]
    IN  /\ q.pc \in {"ctx", "page", "home", "nav", "retry", "wait", "read"}
        /\ req' = [req EXCEPT ![r] =
                      IF q.pc = "wait" THEN [q EXCEPT !.pc = "read"]
                      ELSE FallBackToBing(q)]
        /\ last_search_url' = IF q.pc = "wait" THEN last_search_url
                              ELSE SearchUrl(r, "bing")
        /\ UNCHANGED <<scraper, browserUp, exQueue, exJob, exPc>>

\* _search_bing / _search_bing_enhanced: the httpx request ends
BingDone(r) ==
    LET q == req[r]
    IN  /\ q.pc = "bing"
        /\ \E outcome \in {"ok", "http_error", "exception"} :
             LET q2 == [q EXCEPT !.bing = IF outcome = "ok" THEN "ok" ELSE "failed"]
                 res == BingResult(outcome)
             IN  req' = [req EXCEPT ![r] =
                            IF q.fallback THEN EnterFinally(q2, res)
                            ELSE Finished(q2, res)]
        /\ UNCHANGED <<scraper, browserUp, exQueue, exJob, exPc, last_search_url>>

\* finally: if page: await page.close(); if context: await context.close()
CloseStep(r) ==
    LET q == req[r]
    IN  /\ q.pc \in {"close_page", "close_ctx"}
        /\ req' = [req EXCEPT ![r] =
                      IF q.pc = "close_page"
                      THEN [q EXCEPT !.pc = "close_ctx", !.hasPage = FALSE]
                      ELSE Finished([q EXCEPT !.hasCtx = FALSE], q.result)]
        /\ UNCHANGED <<scraper, browserUp, exQueue, exJob, exPc, last_search_url>>

\* the pending jobs without the one of request r (a concurrent future that is
\* cancelled before it runs is skipped by the worker)
RECURSIVE WithoutJob(_, _)
WithoutJob(queue, r) ==
    IF queue = <<>> THEN <<>>
    ELSE IF Head(queue) = r THEN WithoutJob(Tail(queue), r)
    ELSE <<Head(queue)>> \o WithoutJob(Tail(queue), r)

\* asyncio.wait_for(..., timeout=30.0) expires: the coroutine is cancelled at
\* the await it is suspended at
Timeout(r) ==
    LET q == req[r]
        t == [q EXCEPT !.timedOut = TRUE]
    IN  /\ q.pc \in AwaitPcs
        /\ ~q.timedOut
        /\ req' = [req EXCEPT ![r] =
              IF CaughtAt(q.pc, "CancelledError")
              THEN \* swallowed: the coroutine goes on
                   (IF q.pc = "wait" THEN t ELSE FallBackToBing(t))
              ELSE IF q.pc \in {"close_page", "close_ctx", "e_wait"}
                      \/ (q.pc = "bing" /\ ~q.fallback)
              THEN Finished([t EXCEPT !.cancelled = TRUE], "cancelled")
              ELSE EnterFinally([t EXCEPT !.cancelled = TRUE], "cancelled")]
        /\ exQueue' = IF q.pc = "e_wait" THEN WithoutJob(exQueue, r) ELSE exQueue
        /\ last_search_url' =
               IF CaughtAt(q.pc, "CancelledError") /\ q.pc # "wait"
               THEN SearchUrl(r, "bing") ELSE last_search_url
        /\ UNCHANGED <<scraper, browserUp, exJob, exPc>>

\* the job has ended: its result becomes the result of the future
JobEnds(q, result) ==
    IF q.pc = "e_wait" THEN [q EXCEPT !.future = result] ELSE q

\* the executor's worker thread takes the next job: _perform_google_search
\* starts with self.driver.get, which raises on a None driver
WorkerTake ==
    /\ exJob = NoJob
    /\ exQueue # <<>>
    /\ exQueue' = Tail(exQueue)
    /\ LET r == Head(exQueue)
       IN  IF browserUp
           THEN /\ exJob' = r
                /\ exPc' = "home"
                /\ UNCHANGED req
           ELSE /\ exJob' = NoJob
                /\ exPc' = "idle"
                /\ req' = [req EXCEPT ![r] =
                              JobEnds([req[r] EXCEPT !.googleFailed = TRUE], "empty")]
    /\ UNCHANGED <<scraper, browserUp, last_search_url>>

\* _perform_google_search / _try_alternative_google_search: the driver call
\* returns
WorkerStep ==
    /\ exJob # NoJob
    /\ LET q == req[exJob]
       IN  \E blocked \in (IF exPc \in {"nav", "retry"} THEN BOOLEAN ELSE {FALSE}) :
             CASE exPc = "home" ->
                    /\ exPc' = "nav"
                    /\ UNCHANGED <<req, exJob>>
               [] exPc = "nav" ->
                    /\ exPc' = IF blocked THEN "retry" ELSE "read"
                    /\ req' = [req EXCEPT ![exJob] = [q EXCEPT !.blocked1 = blocked]]
                    /\ UNCHANGED exJob
               \* the page of the typed query is extracted as it is
               [] exPc = "retry" ->
                    /\ exPc' = "idle"
                    /\ exJob' = NoJob
                    /\ req' = [req EXCEPT ![exJob] =
                                  JobEnds([q EXCEPT !.blocked2 = blocked], "google")]
               [] exPc = "read" ->
                    /\ exPc' = "idle"
                    /\ exJob' = NoJob
                    /\ req' = [req EXCEPT ![exJob] = JobEnds(q, "google")]
    /\ UNCHANGED <<scraper, browserUp, exQueue, last_search_url>>

\* the driver call raises: 'except Exception: return [], [], None'
WorkerRaise ==
    /\ exJob # NoJob
    /\ exPc' = "idle"
    /\ exJob' = NoJob
    /\ req' = [req EXCEPT ![exJob] =
                  JobEnds([req[exJob] EXCEPT !.googleFailed = TRUE], "empty")]
    /\ UNCHANGED <<scraper, browserUp, exQueue, last_search_url>>

\* results = await loop.run_in_executor(...); return results
ReceiveResult(r) ==
    LET q == req[r]
    IN  /\ q.pc = "e_wait"
        /\ q.future \in {"google", "empty"}
        /\ req' = [req EXCEPT ![r] = Finished(q, q.future)]
        /\ UNCHANGED <<scraper, browserUp, exQueue, exJob, exPc, last_search_url>>

\* the browser operations in progress on the shared browser instance
BrowserOpsInProgress ==
    Cardinality({r \in Reqs : req[r].pc \in BrowserPcs})
        + (IF exJob # NoJob THEN 1 ELSE 0)

(***************************************************************************)
(* scraper.py scrape_url / _extract_page_content,                          *)
(* enhanced_scraper.py _scrape_url_sync                                    *)
(*                                                                         *)
(* A page is the sequence of its top-level elements in document order;     *)
(* an element is [tag, paras]: a paragraph ("p", one text) or a container  *)
(* ("article", "main", "content", "nav") with the texts of the paragraphs  *)
(* in it.                                                                  *)
(***************************************************************************)
MaxParas == 26
MaxNested == 2

\* if text and len(text) > 50
MinBlockLen == 50
\* content_blocks[:25]
MaxBlocks == 25

\* soup(['script', 'style', 'nav', 'header', 'footer', 'aside', 'iframe',
\*       'noscript']): element.decompose()
RemovedTags ==
    {"script", "style", "nav", "header", "footer", "aside", "iframe", "noscript"}

\* content_selectors, in their order
content_selectors ==
    <<"article", "main", "role_main", "content", "article-content",
      "post-content", "entry-content", "article-body", "p">>

\* the i-th long paragraph: MinBlockLen + i characters, a space at every
\* (i + 1)-th place
LongPara(i) ==
    [k \in 1..(MinBlockLen + i) |-> IF k % (i + 1) = 0 THEN " " ELSE "a"]

ShortPara == <<"a", "a", " ", "a">>

Boilerplate == <<" ">> \o unwanted_patterns[2] \o <<" ", "a">>

\* element.get_text(strip=True): the stripped text nodes, joined by nothing
RECURSIVE GetTextFrom(_, _)
GetTextFrom(paras, i) ==
    IF i > Len(paras) THEN <<>>
    ELSE Strip(paras[i]) \o GetTextFrom(paras, i + 1)

GetText(element) == GetTextFrom(element.paras, 1)

\* the page after the decompose() calls
IsKept(element) == element.tag \notin RemovedTags

Decompose(page) == SelectSeq(page, IsKept)

\* the <p> elements of the page in document order, nested ones included
RECURSIVE ParagraphsFrom(_, _)
ParagraphsFrom(page, i) ==
    IF i > Len(page) THEN <<>>
    ELSE [j \in 1..Len(page[i].paras) |-> [tag |-> "p", paras |-> <<page[i].paras[j]>>]]
         \o ParagraphsFrom(page, i + 1)

\* soup.select(selector)
HasTag(element, selector) == element.tag = selector

RECURSIVE SelectTag(_, _, _)
SelectTag(page, selector, i) ==
    IF i > Len(page) THEN <<>>
    ELSE (IF HasTag(page[i], selector) THEN <<page[i]>> ELSE <<>>)
         \o SelectTag(page, selector, i + 1)

Select(page, selector) ==
    IF selector = "p" THEN ParagraphsFrom(page, 1)
    ELSE SelectTag(page, selector, 1)

IsIn(blocks, text) == \E i \in 1..Len(blocks) : blocks[i] = text

\* for element in elements: keep the sanitized text of an element of more
\* than 50 characters, unless it is empty or already kept
RECURSIVE CollectBlocks(_, _, _)
CollectBlocks(elements, i, blocks) ==
    IF i > Len(elements) THEN blocks
    ELSE LET text == GetText(elements[i])
             clean_text == sanitize_text(text)
         IN  IF /\ Len(text) > MinBlockLen
                /\ clean_text # <<>>
                /\ ~IsIn(blocks, clean_text)
             THEN CollectBlocks(elements, i + 1, Append(blocks, clean_text))
             ELSE CollectBlocks(elements, i + 1, blocks)

\* for selector in content_selectors
RECURSIVE CollectSelectors(_, _, _)
CollectSelectors(page, s, blocks) ==
    IF s > Len(content_selectors) THEN blocks
    ELSE CollectSelectors(page, s + 1,
             CollectBlocks(Select(page, content_selectors[s]), 1, blocks))

\* content_blocks after the loop over content_selectors
ContentBlocks(page) == CollectSelectors(Decompose(page), 1, <<>>)

FirstBlocks(blocks) ==
    IF Len(blocks) <= MaxBlocks THEN blocks ELSE SubSeq(blocks, 1, MaxBlocks)

\* _extract_page_content: the blocks, or those of soup.find_all('p') when
\* there are none; return content_blocks[:25]
ExtractPageContent(page) ==
    LET blocks == ContentBlocks(page)
        broader == IF blocks = <<>>
                   THEN CollectBlocks(ParagraphsFrom(Decompose(page), 1), 1, <<>>)
                   ELSE blocks
    IN  FirstBlocks(broader)

\* len(text.split())
TokenCount(text) == Len(Split(text))

\* sum(len(text.split()) for text in blocks)
RECURSIVE SumTokens(_, _)
SumTokens(blocks, i) ==
    IF i > Len(blocks) THEN 0
    ELSE TokenCount(blocks[i]) + SumTokens(blocks, i + 1)

NoContent == [none |-> TRUE, content |-> <<>>, word_count |-> 0]

\* UniversalScraper.scrape_url: content = await self._extract_page_content(page)
\* ScrapedContent(content=content, word_count=sum(... for text in content))
ScrapedUniversal(page) ==
    LET content == ExtractPageContent(page)
    IN  IF content = <<>> THEN NoContent
        ELSE [none |-> FALSE, content |-> content,
              word_count |-> SumTokens(content, 1)]

\* EnhancedUndetectedScraper._scrape_url_sync:
\* ScrapedContent(content=content_blocks[:25],
\*                word_count=sum(... for text in content_blocks))
ScrapedEnhanced(page) ==
    LET content_blocks == ContentBlocks(page)
    IN  IF content_blocks = <<>> THEN NoContent
        ELSE [none |-> FALSE, content |-> FirstBlocks(content_blocks),
              word_count |-> SumTokens(content_blocks, 1)]

\* a page with n long paragraphs: the first ones (at most MaxNested) inside a
\* container of the layout, a short paragraph and a paragraph with
\* boilerplate before them, a copy of the first long paragraph after them
PageOf(n, layout, extras) ==
    LET nested == IF layout = "p" THEN 0 ELSE (IF n < MaxNested THEN n ELSE MaxNested)
        head == IF nested = 0 THEN <<>>
                ELSE <<[tag |-> layout, paras |-> [j \in 1..nested |-> LongPara(j)]]>>
        rest == [j \in 1..(n - nested) |->
                    [tag |-> "p", paras |-> <<LongPara(nested + j)>>]]
        before == IF extras
                  THEN <<[tag |-> "p", paras |-> <<ShortPara>>],
                         [tag |-> "p", paras |-> <<LongPara(1) \o Boilerplate>>]>>
                  ELSE <<>>
        after == IF extras /\ n > 0
                 THEN <<[tag |-> "p", paras |-> <<LongPara(1)>>]>>
                 ELSE <<>>
    IN  before \o head \o rest \o after

ScrIdle ==
    /\ scrScraper = "none"
    /\ scrPage = <<>>
    /\ scrOut = NoContent
    /\ scrPc = "idle"

\* the page of the URL has been fetched
ScrInit ==
    /\ scrScraper \in Scrapers
    /\ \E n \in 0..MaxParas, layout \in {"p", "article", "content", "nav"},
          extras \in BOOLEAN :
          scrPage = PageOf(n, layout, extras)
    /\ scrOut = NoContent
    /\ scrPc = "fetched"

\* UniversalScraper.scrape_url returns
ScrapeUniversal ==
    /\ scrPc = "fetched"
    /\ scrScraper = "universal"
    /\ scrOut' = ScrapedUniversal(scrPage)
    /\ scrPc' = "returned"
    /\ UNCHANGED <<scrScraper, scrPage>>

\* EnhancedUndetectedScraper.scrape_url returns
ScrapeEnhanced ==
    /\ scrPc = "fetched"
    /\ scrScraper = "enhanced"
    /\ scrOut' = ScrapedEnhanced(scrPage)
    /\ scrPc' = "returned"
    /\ UNCHANGED <<scrScraper, scrPage>>

(***************************************************************************)
(* scraper.py _search_google, enhanced_scraper.py _perform_google_search:  *)
(* the block check of the fetched Google markup                            *)
(*   "recaptcha" in content.lower() or "unusual traffic" in content.lower() *)
(***************************************************************************)
MaxPieces == 2

UpperLetters ==
    <<"A", "B", "C", "D", "E", "F", "G", "H", "I", "J", "K", "L", "M",
      "N", "O", "P", "Q", "R", "S", "T", "U", "V", "W", "X", "Y", "Z">>

LowerLetters ==
    <<"a", "b", "c", "d", "e", "f", "g", "h", "i", "j", "k", "l", "m",
      "n", "o", "p", "q", "r", "s", "t", "u", "v", "w", "x", "y", "z">>

\* str.lower() of one character
LowerChar(c) ==
    IF \E i \in 1..Len(UpperLetters) : UpperLetters[i] = c
    THEN LowerLetters[CHOOSE i \in 1..Len(UpperLetters) : UpperLetters[i] = c]
    ELSE c

\* content.lower()
Lower(text) == [i \in 1..Len(text) |-> LowerChar(text[i])]

\* the two markers of the block check
RecaptchaMarker == <<"r", "e", "c", "a", "p", "t", "c", "h", "a">>

TrafficMarker ==
    <<"u", "n", "u", "s", "u", "a", "l", " ", "t", "r", "a", "f", "f", "i", "c">>

\* a variant of the check that does not lower the content
IsBlockedAsWritten(content) ==
    Contains(content, RecaptchaMarker) \/ Contains(content, TrafficMarker)

\* "recaptcha" in content.lower() or "unusual traffic" in content.lower()
IsBlocked(content) ==
    Contains(Lower(content), RecaptchaMarker)
        \/ Contains(Lower(content), TrafficMarker)

\* the pieces the fetched markups are made of: the markers in several letter
\* cases, their halves, a marker with a doubled space, and other text
MarkupPieces == {
    <<"u", "n", "u", "s", "u", "a", "l", " ", "t", "r", "a", "f", "f", "i", "c">>,
    <<"U", "n", "u", "s", "u", "a", "l", " ", "T", "r", "a", "f", "f", "i", "c">>,
    <<"U", "N", "U", "S", "U", "A", "L", " ", "T", "R", "A", "F", "F", "I", "C">>,
    <<"u", "n", "u", "s", "u", "a", "l">>,
    <<" ", "T", "r", "a", "f", "f", "i", "c">>,
    <<"u", "n", "u", "s", "u", "a", "l", " ", " ", "t", "r", "a", "f", "f", "i", "c">>,
    <<"r", "e", "C", "A", "P", "T", "C", "H", "A">>,
    <<"r", "e", "c", "a", "p">>,
    <<"t", "c", "h", "a">>,
    <<"<", "p", ">", "o", "k", "<", "/", "p", ">">> }

ClsMarkups ==
    UNION { { Concat(parts, 1) : parts \in [1..n -> MarkupPieces] } :
              n \in 0..MaxPieces }

ClsIdle ==
    /\ clsMarkup = <<>>
    /\ clsOut = "none"
    /\ clsPc = "idle"

\* content = await page.content()
ClsInit ==
    /\ clsMarkup \in ClsMarkups
    /\ clsOut = "none"
    /\ clsPc = "fetched"

\* the if of the block check takes its branch
ClassifyBlocked ==
    /\ clsPc = "fetched"
    /\ IsBlocked(clsMarkup)
    /\ clsOut' = "blocked"
    /\ clsPc' = "classified"
    /\ UNCHANGED clsMarkup

ClassifyClear ==
    /\ clsPc = "fetched"
    /\ ~IsBlocked(clsMarkup)
    /\ clsOut' = "clear"
    /\ clsPc' = "classified"
    /\ UNCHANGED clsMarkup

(***************************************************************************)
(* scraper.py initialize / restart_browser / cleanup / _search_google /     *)
(* scrape_url, enhanced_scraper.py _initialize_driver / cleanup /           *)
(* _perform_google_search / _scrape_url_sync: the browser launches and the *)
(* identity (profile, proxy) each browser fetch presents                   *)
(***************************************************************************)
MaxLaunches == 3
MaxAttempts == 2

\* self.browser_profiles of EnhancedUserAgentRotator / USER_AGENT_LIST
Profiles == {"chrome", "firefox", "edge"}

\* self.browser = None / self.driver = None
NoBrowser == [up |-> FALSE, proxy |-> NoProxy, user_agent |-> "none"]

LchIdle ==
    /\ lchScraper = "none"
    /\ browser = NoBrowser
    /\ launches = 0
    /\ attempts = <<>>

\* __init__ of the scraper class: no browser yet
LchInit ==
    /\ lchScraper \in Scrapers
    /\ browser = NoBrowser
    /\ launches = 0
    /\ attempts = <<>>

\* UniversalScraper.initialize: proxy_config = proxy_rotator.get_proxy_config()
\* and chromium.launch(..., proxy=proxy_config), or launch(...) without one
InitializeUniversal ==
    /\ lchScraper = "universal"
    /\ ~browser.up
    /\ launches < MaxLaunches
    /\ get_random_proxy
    /\ browser' = [up |-> TRUE, proxy |-> lastProxy', user_agent |-> "none"]
    /\ launches' = launches + 1
    /\ UNCHANGED <<lchScraper, attempts>>

\* EnhancedUndetectedScraper._initialize_driver: --user-agent of
\* random.choice(USER_AGENT_LIST), --proxy-server of random.choice(PROXY_LIST)
InitializeEnhanced ==
    /\ lchScraper = "enhanced"
    /\ ~browser.up
    /\ launches < MaxLaunches
    /\ \E user_agent \in Profiles :
       \E proxy \in (IF proxies = {} THEN {NoProxy} ELSE proxies) :
           browser' = [up |-> TRUE, proxy |-> proxy, user_agent |-> user_agent]
    /\ launches' = launches + 1
    /\ UNCHANGED <<lchScraper, attempts, proxyVars>>

\* UniversalScraper.restart_browser: self.browser.close(), then
\* self.playwright.chromium.launch(headless=True, args=[...])
RestartBrowser ==
    /\ lchScraper = "universal"
    /\ browser.up
    /\ launches < MaxLaunches
    /\ browser' = [up |-> TRUE, proxy |-> NoProxy, user_agent |-> "none"]
    /\ launches' = launches + 1
    /\ UNCHANGED <<lchScraper, attempts, proxyVars>>

\* cleanup(): the browser is closed, the handle is None
Cleanup ==
    /\ browser.up
    /\ browser' = NoBrowser
    /\ UNCHANGED <<lchScraper, launches, attempts, proxyVars>>

\* one browser fetch with its outcome: the identity it presented, what it drew
\* for itself, and the launch whose browser it used
Attempt(profile, drew, outcome) ==
    [profile |-> profile, proxy |-> browser.proxy, drew |-> drew,
     outcome |-> outcome, launch |-> launches]

\* the ways a browser fetch ends; a proxy error needs a proxy
Outcomes == IF browser.proxy = NoProxy THEN {"ok"} ELSE {"ok", "proxy_error"}

\* UniversalScraper._search_google / scrape_url:
\* profile = user_agent_rotator.get_random_profile(); self.browser.new_context(
\* user_agent=profile['user_agent'], ...); an exception of the fetch ends in
\* 'except Exception' (Bing fallback, or return None)
FetchUniversal ==
    /\ lchScraper = "universal"
    /\ browser.up
    /\ Len(attempts) < MaxAttempts
    /\ \E profile \in Profiles, outcome \in Outcomes :
           attempts' = Append(attempts, Attempt(profile, {"profile"}, outcome))
    /\ UNCHANGED <<lchScraper, browser, launches, proxyVars>>

\* EnhancedUndetectedScraper._perform_google_search / _scrape_url_sync:
\* self.driver.get(...) on the driver as it was launched; an exception ends in
\* 'except Exception: return [], [], None' (or None)
FetchEnhanced ==
    /\ lchScraper = "enhanced"
    /\ browser.up
    /\ Len(attempts) < MaxAttempts
    /\ \E outcome \in Outcomes :
           attempts' = Append(attempts, Attempt(browser.user_agent, {}, outcome))
    /\ UNCHANGED <<lchScraper, browser, launches, proxyVars>>

(***************************************************************************)
(* main.py: ultra_robust_middleware around the handlers search_serp,       *)
(* scrape_content (direct URL), restart_browser and health_check           *)
(***************************************************************************)
MaxRequests == 3

\* for attempt in range(3)
ScrapeAttempts == 3

Endpoints == {"search", "scrape", "restart", "health"}

NoRequest ==
    [endpoint |-> "none", pc |-> "idle", attempt |-> 0,
     scraped_content |-> "None", log |-> <<>>, status |-> 0]

ApiIdle ==
    /\ apiReq = NoRequest
    /\ failed_requests = 0
    /\ served = 0
    /\ errors = 0

\* a request reaches the middleware: response = await call_next(request)
Receive ==
    /\ apiReq.pc \in {"idle", "done"}
    /\ served < MaxRequests
    /\ \E endpoint \in Endpoints :
           apiReq' = [NoRequest EXCEPT !.endpoint = endpoint,
                                       !.pc = IF endpoint = "scrape"
                                              THEN "loop" ELSE "handler"]
    /\ UNCHANGED <<failed_requests, served, errors>>

\* a variant of the retry loop without 'if scraped_content: break'
LoopNeverBreaks(attempt, outcome) == attempt = ScrapeAttempts - 1

\* the for loop is left after this attempt: 'if scraped_content: break', or
\* range(3) is exhausted
LoopEnds(attempt, outcome) ==
    outcome = "content" \/ attempt = ScrapeAttempts - 1

\* the statuses a handler can answer with, and whether its own except
\* clauses call log_error_metrics() before the error response is made
ErrorStatuses(endpoint) ==
    CASE endpoint = "search"  -> {400, 500, 504}
      [] endpoint = "scrape"  -> {422, 500, 504}
      [] endpoint = "restart" -> {500}
      [] endpoint = "health"  -> {503}

HandlerLogsError(endpoint) == endpoint \in {"scrape", "restart", "health"}

\* the handler ends with the status; the response goes back to the middleware
Responded(q, status) == [q EXCEPT !.pc = "middleware", !.status = status]

\* log_error_metrics() calls of the handler for this status
LoggedByHandler(endpoint, status) ==
    IF status >= 400 /\ HandlerLogsError(endpoint) THEN 1 ELSE 0

\* scrape_content after the loop: 'if not scraped_content: raise
\* HTTPException(422)', else the response is built
AfterLoop(q) ==
    Responded(q, IF q.scraped_content = "None" THEN 422 ELSE 200)

\* scrape_content, direct URL: one pass of 'for attempt in range(3)':
\* scraped_content = await asyncio.wait_for(scraper.scrape_url(url_str), 45.0);
\* a timeout of the last attempt raises HTTPException(504), one of an earlier
\* attempt continues; 'except HTTPException: log_error_metrics(); raise'
ScrapeAttempt ==
    /\ apiReq.pc = "loop"
    /\ \E outcome \in {"content", "None", "timeout"} :
         LET q == [apiReq EXCEPT !.log = Append(@, outcome)]
             got == [q EXCEPT !.scraped_content = outcome]
         IN  /\ apiReq' =
                    IF outcome = "timeout"
                    THEN (IF q.attempt = ScrapeAttempts - 1
                          THEN Responded(q, 504)
                          ELSE [q EXCEPT !.attempt = @ + 1])
                    ELSE IF LoopEnds(q.attempt, outcome) THEN AfterLoop(got)
                    ELSE [got EXCEPT !.attempt = @ + 1]
             /\ failed_requests' =
                    failed_requests + LoggedByHandler("scrape", apiReq'.status)
    /\ UNCHANGED <<served, errors>>

\* search_serp, restart_browser, health_check: the handler returns, or its
\* except clause answers with an error status
HandlerEnds ==
    /\ apiReq.pc = "handler"
    /\ \E status \in {200} \cup ErrorStatuses(apiReq.endpoint) :
         /\ apiReq' = Responded(apiReq, status)
         /\ failed_requests' =
                failed_requests + LoggedByHandler(apiReq.endpoint, status)
    /\ UNCHANGED <<served, errors>>

\* ultra_robust_middleware after call_next: status < 400 counts as success,
\* otherwise log_error_metrics()
Middleware ==
    /\ apiReq.pc = "middleware"
    /\ apiReq' = [apiReq EXCEPT !.pc = "done"]
    /\ failed_requests' = failed_requests + (IF apiReq.status >= 400 THEN 1 ELSE 0)
    /\ served' = served + 1
    /\ errors' = errors + (IF apiReq.status >= 400 THEN 1 ELSE 0)

(***************************************************************************)
(* main.py search_serp: 'if not await scraper.is_browser_ready():          *)
(* await scraper.cleanup(); await scraper.initialize()', run by two        *)
(* requests at once. Every await is a step of its own; the code between    *)
(* two awaits runs without interruption.                                   *)
(***************************************************************************)
Reiniters == {1, 2}

\* the browsers (and playwright drivers) that can exist: the one of the
\* startup and one per re-initialisation
InstanceIds == 1..(Cardinality(Reiniters) + 1)

\* the next instance that does not exist yet
Fresh(all) == CHOOSE i \in InstanceIds :
                  all[i] = "none" /\ \A j \in InstanceIds : all[j] = "none" => i <= j

ReIdle ==
    /\ reScraper = "none"
    /\ handle = 0
    /\ playwright = 0
    /\ instances = <<>>
    /\ drivers = <<>>
    /\ rq = <<>>
    /\ jobs = <<>>

\* the browser of the startup has stopped answering, or the startup left no
\* browser at all
ReInit ==
    /\ reScraper \in Scrapers
    /\ \E first \in {0, 1} :
         /\ handle = first
         /\ playwright = IF reScraper = "universal" THEN first ELSE 0
         /\ instances = [i \in InstanceIds |->
                            IF i = first THEN "broken" ELSE "none"]
         /\ drivers = [i \in InstanceIds |->
                          IF i = first /\ reScraper = "universal"
                          THEN "running" ELSE "none"]
    /\ rq = [r \in Reiniters |-> [pc |-> "idle", target |-> 0, raising |-> FALSE]]
    /\ jobs = <<>>

\* is_browser_ready(): no handle, or the handle's browser does not answer
BrowserReady == handle # 0 /\ instances[handle] = "open"

\* cleanup() after its browser part, universal: 'if self.playwright: await
\* self.playwright.stop()', else the handles are reset and initialize()
\* (or the re-raise of a failed initialize) follows
AfterBrowserClosed(q) ==
    IF playwright # 0
    THEN [q EXCEPT !.pc = "stopping", !.target = playwright]
    ELSE [q EXCEPT !.pc = IF q.raising THEN "failed" ELSE "starting", !.target = 0]

\* search_serp finds the browser not ready and calls cleanup(): 'if
\* self.browser: await self.browser.close()' (universal), 'if self.driver:
\* await loop.run_in_executor(self.executor, self._cleanup_driver)' (enhanced)
NotReady(r) ==
    /\ rq[r].pc = "idle"
    /\ ~BrowserReady
    /\ IF handle # 0
       THEN /\ rq' = [rq EXCEPT ![r] = [@ EXCEPT !.pc = "closing", !.target = handle]]
            /\ jobs' = IF reScraper = "enhanced"
                       THEN Append(jobs, [req |-> r, kind |-> "quit", ran |-> FALSE])
                       ELSE jobs
            /\ UNCHANGED <<handle, playwright>>
       ELSE IF reScraper = "universal"
       THEN /\ rq' = [rq EXCEPT ![r] = AfterBrowserClosed(@)]
            /\ UNCHANGED <<handle, playwright, jobs>>
       ELSE \* finally: self.driver = None; initialize() submits its job
            /\ rq' = [rq EXCEPT ![r] = [@ EXCEPT !.pc = "launching"]]
            /\ jobs' = Append(jobs, [req |-> r, kind |-> "init", ran |-> FALSE])
            /\ UNCHANGED <<handle, playwright>>
    /\ UNCHANGED <<reScraper, instances, drivers>>

\* the executor's worker thread runs the oldest job: _cleanup_driver quits
\* self.driver as it is now, _initialize_driver sets self.driver = uc.Chrome(...)
WorkerRuns ==
    /\ reScraper = "enhanced"
    /\ jobs # <<>>
    /\ ~jobs[1].ran
    /\ jobs' = [jobs EXCEPT ![1].ran = TRUE]
    /\ IF jobs[1].kind = "quit"
       THEN /\ instances' = IF handle # 0
                            THEN [instances EXCEPT ![handle] = "closed"]
                            ELSE instances
            /\ UNCHANGED handle
       ELSE /\ instances' = [instances EXCEPT ![Fresh(instances)] = "open"]
            /\ handle' = Fresh(instances)
    /\ UNCHANGED <<reScraper, playwright, drivers, rq>>

\* the job of request r has run: its future is done
JobDone(r) == jobs # <<>> /\ jobs[1].req = r /\ jobs[1].ran

\* cleanup() resumes after closing the browser
CloseDone(r) ==
    /\ rq[r].pc = "closing"
    /\ IF reScraper = "universal"
       THEN /\ instances' = [instances EXCEPT ![rq[r].target] = "closed"]
            /\ rq' = [rq EXCEPT ![r] = AfterBrowserClosed(@)]
            /\ UNCHANGED <<handle, jobs>>
       ELSE \* finally: self.driver = None; initialize() submits its job
            /\ JobDone(r)
            /\ handle' = 0
            /\ rq' = [rq EXCEPT ![r] = [@ EXCEPT !.pc = "launching", !.target = 0]]
            /\ jobs' = Append(Tail(jobs), [req |-> r, kind |-> "init", ran |-> FALSE])
            /\ UNCHANGED instances
    /\ UNCHANGED <<reScraper, playwright, drivers>>

\* UniversalScraper.cleanup(): playwright.stop() has returned;
\* self.browser = None; self.playwright = None; then initialize() awaits
\* async_playwright().start(), or the failed initialize re-raises
StopDone(r) ==
    /\ rq[r].pc = "stopping"
    /\ drivers' = [drivers EXCEPT ![rq[r].target] = "stopped"]
    /\ handle' = 0
    /\ playwright' = 0
    /\ rq' = [rq EXCEPT ![r] =
                 [@ EXCEPT !.pc = IF rq[r].raising THEN "failed" ELSE "starting",
                           !.target = 0]]
    /\ UNCHANGED <<reScraper, instances, jobs>>

\* UniversalScraper.initialize(): self.playwright = await
\* async_playwright().start(); the launch is awaited on it
StartDone(r) ==
    /\ rq[r].pc = "starting"
    /\ drivers' = [drivers EXCEPT ![Fresh(drivers)] = "running"]
    /\ playwright' = Fresh(drivers)
    /\ rq' = [rq EXCEPT ![r] = [@ EXCEPT !.pc = "launching", !.target = Fresh(drivers)]]
    /\ UNCHANGED <<reScraper, handle, instances, jobs>>

\* initialize() resumes after the launch. Universal: self.browser = the new
\* browser; a launch on a playwright that was stopped meanwhile raises, and
\* 'except Exception: await self.cleanup(); raise' follows. Enhanced: the
\* job has set self.driver
LaunchDone(r) ==
    /\ rq[r].pc = "launching"
    /\ IF reScraper = "enhanced"
       THEN /\ JobDone(r)
            /\ jobs' = Tail(jobs)
            /\ rq' = [rq EXCEPT ![r] = [@ EXCEPT !.pc = "done"]]
            /\ UNCHANGED <<handle, instances>>
       ELSE IF drivers[rq[r].target] = "stopped"
       THEN /\ rq' = [rq EXCEPT ![r] =
                  IF handle # 0
                  THEN [@ EXCEPT !.pc = "closing", !.target = handle, !.raising = TRUE]
                  ELSE AfterBrowserClosed([@ EXCEPT !.raising = TRUE])]
            /\ UNCHANGED <<handle, instances, jobs>>
       ELSE /\ instances' = [instances EXCEPT ![Fresh(instances)] = "open"]
            /\ handle' = Fresh(instances)
            /\ rq' = [rq EXCEPT ![r] = [@ EXCEPT !.pc = "done", !.target = 0]]
            /\ UNCHANGED jobs
    /\ UNCHANGED <<reScraper, playwright, drivers>>

(***************************************************************************)
(* main.py: bulk_search                                                    *)
(***************************************************************************)
\* if len(queries) > 5: raise HTTPException(status_code=400, ...)
MaxQueries == 5

QueryTexts == {"a", "b"}

NoResponse == [status |-> 0, total_queries |-> 0, successful_queries |-> 0,
               failed_queries |-> 0]

BulkIdle ==
    /\ bulkQueries = <<>>
    /\ bulkResults = <<>>
    /\ bulkOutcomes = <<>>
    /\ bulkPc = "idle"
    /\ bulkResponse = NoResponse

\* the request body: a list of queries of any length
BulkInit ==
    /\ bulkQueries \in UNION { [1..n -> QueryTexts] : n \in 0..(MaxQueries + 1) }
    /\ bulkResults = <<>>
    /\ bulkOutcomes = <<>>
    /\ bulkPc = "received"
    /\ bulkResponse = NoResponse

\* a variant of the loop body whose except clause appends nothing
RecordedSuccessOnly(list, query, outcome) ==
    IF outcome = "raises" THEN list
    ELSE Append(list, [query |-> query, error |-> FALSE])

\* results.append(query_result), or results.append(error_result) in
\* 'except Exception'
Recorded(list, query, outcome) ==
    Append(list, [query |-> query, error |-> outcome = "raises"])

\* len([r for r in results if "error" in r]) / if "error" not in r
CountEntries(list, error) ==
    Cardinality({i \in 1..Len(list) : list[i].error = error})

\* the two length checks at the top of bulk_search
BulkReject ==
    /\ bulkPc = "received"
    /\ Len(bulkQueries) > MaxQueries \/ Len(bulkQueries) = 0
    /\ bulkResponse' = [NoResponse EXCEPT !.status = 400]
    /\ bulkPc' = "done"
    /\ UNCHANGED <<bulkQueries, bulkResults, bulkOutcomes>>

\* one pass of 'for i, query in enumerate(queries)': the search of the query
\* returns or raises
BulkQuery ==
    /\ bulkPc = "received"
    /\ Len(bulkQueries) \in 1..MaxQueries
    /\ Len(bulkOutcomes) < Len(bulkQueries)
    /\ \E outcome \in {"ok", "raises"} :
         /\ bulkOutcomes' = Append(bulkOutcomes, outcome)
         /\ bulkResults' = Recorded(bulkResults, bulkQueries[Len(bulkOutcomes) + 1], outcome)
    /\ UNCHANGED <<bulkQueries, bulkPc, bulkResponse>>

\* after the loop: return {"bulk_search_metadata": {...}, "results": results}
BulkReturn ==
    /\ bulkPc = "received"
    /\ Len(bulkQueries) \in 1..MaxQueries
    /\ Len(bulkOutcomes) = Len(bulkQueries)
    /\ bulkResponse' = [status |-> 200,
                        total_queries |-> Len(bulkQueries),
                        successful_queries |-> CountEntries(bulkResults, FALSE),
                        failed_queries |-> CountEntries(bulkResults, TRUE)]
    /\ bulkPc' = "done"
    /\ UNCHANGED <<bulkQueries, bulkResults, bulkOutcomes>>

InitSanitize == SanInit /\ ProxyIdle /\ ExtIdle /\ SrchIdle /\ ScrIdle /\ ClsIdle /\ LchIdle /\ ApiIdle /\ ReIdle /\ BulkIdle

NextSanitize ==
    \/ Sanitize /\ UNCHANGED <<proxyVars, extVars, srchVars, scrVars, clsVars, lchVars, apiVars, reVars, bulkVars>>
    \/ SanitizeAgain /\ UNCHANGED <<proxyVars, extVars, srchVars, scrVars, clsVars, lchVars, apiVars, reVars, bulkVars>>

InitProxy == ProxyInit /\ SanIdle /\ ExtIdle /\ SrchIdle /\ ScrIdle /\ ClsIdle /\ LchIdle /\ ApiIdle /\ ReIdle /\ BulkIdle

NextProxy ==
    \/ get_random_proxy /\ UNCHANGED <<sanVars, extVars, srchVars, scrVars, clsVars, lchVars, apiVars, reVars, bulkVars>>
    \/ mark_proxy_failed /\ UNCHANGED <<sanVars, extVars, srchVars, scrVars, clsVars, lchVars, apiVars, reVars, bulkVars>>

SpecProxy == InitProxy /\ [][NextProxy]_vars

InitExtract == ExtInit /\ SanIdle /\ ProxyIdle /\ SrchIdle /\ ScrIdle /\ ClsIdle /\ LchIdle /\ ApiIdle /\ ReIdle /\ BulkIdle

NextExtract ==
    \/ ReturnGoogleResults /\ UNCHANGED <<sanVars, proxyVars, srchVars, scrVars, clsVars, lchVars, apiVars, reVars, bulkVars>>
    \/ ReturnBingResults /\ UNCHANGED <<sanVars, proxyVars, srchVars, scrVars, clsVars, lchVars, apiVars, reVars, bulkVars>>

SpecExtract == InitExtract /\ [][NextExtract]_vars

InitSearch == SrchInit /\ SanIdle /\ ProxyIdle /\ ExtIdle /\ ScrIdle /\ ClsIdle /\ LchIdle /\ ApiIdle /\ ReIdle /\ BulkIdle

NotSearch == <<sanVars, proxyVars, extVars, scrVars, clsVars, lchVars, apiVars, reVars, bulkVars>>

NextSearch ==
    \/ (\E r \in Reqs : StartSearch(r)) /\ UNCHANGED NotSearch
    \/ (\E r \in Reqs : GoogleStep(r)) /\ UNCHANGED NotSearch
    \/ (\E r \in Reqs : GoogleRaise(r)) /\ UNCHANGED NotSearch
    \/ (\E r \in Reqs : BingDone(r)) /\ UNCHANGED NotSearch
    \/ (\E r \in Reqs : CloseStep(r)) /\ UNCHANGED NotSearch
    \/ (\E r \in Reqs : Timeout(r)) /\ UNCHANGED NotSearch
    \/ (\E r \in Reqs : ReceiveResult(r)) /\ UNCHANGED NotSearch
    \/ WorkerTake /\ UNCHANGED NotSearch
    \/ WorkerStep /\ UNCHANGED NotSearch
    \/ WorkerRaise /\ UNCHANGED NotSearch

SpecSearch == InitSearch /\ [][NextSearch]_vars

InitScrape == ScrInit /\ SanIdle /\ ProxyIdle /\ ExtIdle /\ SrchIdle /\ ClsIdle /\ LchIdle /\ ApiIdle /\ ReIdle /\ BulkIdle

NextScrape ==
    \/ ScrapeUniversal /\ UNCHANGED <<sanVars, proxyVars, extVars, srchVars, clsVars, lchVars, apiVars, reVars, bulkVars>>
    \/ ScrapeEnhanced /\ UNCHANGED <<sanVars, proxyVars, extVars, srchVars, clsVars, lchVars, apiVars, reVars, bulkVars>>

SpecScrape == InitScrape /\ [][NextScrape]_vars

NotClassify == <<sanVars, proxyVars, extVars, srchVars, scrVars, lchVars, apiVars, reVars, bulkVars>>

InitClassify ==
    ClsInit /\ SanIdle /\ ProxyIdle /\ ExtIdle /\ SrchIdle /\ ScrIdle /\ LchIdle /\ ApiIdle /\ ReIdle /\ BulkIdle

NextClassify ==
    \/ ClassifyBlocked /\ UNCHANGED NotClassify
    \/ ClassifyClear /\ UNCHANGED NotClassify

SpecClassify == InitClassify /\ [][NextClassify]_vars

SpecSanitize == InitSanitize /\ [][NextSanitize]_vars

InitLaunch == LchInit /\ ProxyInit /\ SanIdle /\ ExtIdle /\ SrchIdle /\ ScrIdle /\ ClsIdle /\ ApiIdle /\ ReIdle /\ BulkIdle

NotLaunch == <<sanVars, extVars, srchVars, scrVars, clsVars, apiVars, reVars, bulkVars>>

NextLaunch ==
    \/ InitializeUniversal /\ UNCHANGED NotLaunch
    \/ InitializeEnhanced /\ UNCHANGED NotLaunch
    \/ RestartBrowser /\ UNCHANGED NotLaunch
    \/ Cleanup /\ UNCHANGED NotLaunch
    \/ FetchUniversal /\ UNCHANGED NotLaunch
    \/ FetchEnhanced /\ UNCHANGED NotLaunch

SpecLaunch == InitLaunch /\ [][NextLaunch]_vars

ApiInit == ApiIdle

InitApi ==
    ApiInit /\ SanIdle /\ ProxyIdle /\ ExtIdle /\ SrchIdle /\ ScrIdle /\ ClsIdle /\ LchIdle /\ ReIdle /\ BulkIdle

NotApi == <<sanVars, proxyVars, extVars, srchVars, scrVars, clsVars, lchVars, reVars, bulkVars>>

NextApi ==
    \/ Receive /\ UNCHANGED NotApi
    \/ ScrapeAttempt /\ UNCHANGED NotApi
    \/ HandlerEnds /\ UNCHANGED NotApi
    \/ Middleware /\ UNCHANGED NotApi

SpecApi == InitApi /\ [][NextApi]_vars

InitReinit ==
    ReInit /\ SanIdle /\ ProxyIdle /\ ExtIdle /\ SrchIdle /\ ScrIdle /\ ClsIdle /\ LchIdle /\ ApiIdle /\ BulkIdle

NotReinit == <<sanVars, proxyVars, extVars, srchVars, scrVars, clsVars, lchVars, apiVars, bulkVars>>

NextReinit ==
    \/ \E r \in Reiniters : NotReady(r) /\ UNCHANGED NotReinit
    \/ \E r \in Reiniters : CloseDone(r) /\ UNCHANGED NotReinit
    \/ \E r \in Reiniters : StopDone(r) /\ UNCHANGED NotReinit
    \/ \E r \in Reiniters : StartDone(r) /\ UNCHANGED NotReinit
    \/ \E r \in Reiniters : LaunchDone(r) /\ UNCHANGED NotReinit
    \/ WorkerRuns /\ UNCHANGED NotReinit

SpecReinit == InitReinit /\ [][NextReinit]_vars

InitBulk ==
    BulkInit /\ SanIdle /\ ProxyIdle /\ ExtIdle /\ SrchIdle /\ ScrIdle /\ ClsIdle /\ LchIdle /\ ApiIdle /\ ReIdle

NotBulk == <<sanVars, proxyVars, extVars, srchVars, scrVars, clsVars, lchVars, apiVars, reVars>>

NextBulk ==
    \/ BulkReject /\ UNCHANGED NotBulk
    \/ BulkQuery /\ UNCHANGED NotBulk
    \/ BulkReturn /\ UNCHANGED NotBulk

SpecBulk == InitBulk /\ [][NextBulk]_vars

\* C1: the organic result list search_comprehensive returns holds no two
\* entries with the same link, on every provider path of both scrapers.
C1_UniqueLinks ==
    extPc = "returned" =>
        \A i, j \in 1..Len(extOut) : i # j => extOut[i].link # extOut[j].link

\* C2: the i-th entry of the returned organic result list has position i, also
\* after candidates were skipped and after truncation to num_results.
C2_PositionsInOrder ==
    extPc = "returned" =>
        \A i \in 1..Len(extOut) : extOut[i].position = i

\* a returned list of two entries taken from three elements, one of them
\* skipped, on the Google path and on the Bing path
C2_Witness ==
    /\ extPc = "returned"
    /\ Len(extMarkup) = 3
    /\ Len(extOut) = 2
    /\ extOut[2].position = 2

\* C3: when Google is detected as blocked on the direct-URL fetch and the page
\* of the typed-query retry is blocked again, the search invokes Bing.
C3_BlockedTwiceFallsBack ==
    \A r \in Reqs :
        (/\ req[r].pc = "done"
         /\ req[r].blocked1
         /\ req[r].blocked2
         /\ ~req[r].timedOut) => req[r].bing # "no"

\* C4: at most one browser operation is in progress on the shared browser
\* instance at any time, whatever the number of concurrent requests.
C4_OneBrowserOperation == BrowserOpsInProgress <= 1

\* C5: sanitize_text is idempotent: sanitizing its own output changes nothing.
C5_Idempotent == sanPc = "twice" => sanOut2 = sanOut

\* C6: the output of sanitize_text has no leading or trailing whitespace, no
\* run of two or more whitespace characters and none of the boilerplate
\* substrings; empty input yields empty output.
C6_CleanOutput ==
    sanPc \in {"once", "twice"} =>
        /\ (sanOut # <<>> => ~IsSpace(sanOut[1]) /\ ~IsSpace(sanOut[Len(sanOut)]))
        /\ \A i \in 1..(Len(sanOut) - 1) :
               ~(IsSpace(sanOut[i]) /\ IsSpace(sanOut[i + 1]))
        /\ \A p \in 1..Len(unwanted_patterns) :
               ~Contains(sanOut, unwanted_patterns[p])
        /\ (sanIn = <<>> => sanOut = <<>>)

\* C7: with at least one configured proxy, get_random_proxy returns a
\* configured proxy, never None, and that proxy is not in the failed set when
\* the call returns; in particular when every configured proxy had been marked
\* failed before the call.
C7_PoolSelfHeals ==
    (lastCall = "get" /\ ProxyEnabled(proxies)) =>
        /\ lastProxy # NoProxy
        /\ lastProxy \in proxies
        /\ lastProxy \notin failed_proxies

\* a get_random_proxy call that found every configured proxy marked failed
C7_Witness ==
    /\ lastCall = "get"
    /\ allFailedBefore
    /\ Cardinality(proxies) >= 2
    /\ lastProxy \in proxies

C9_TimeoutIsFatal ==
    \A r \in Reqs :
        req[r].timedOut =>
            /\ ~req[r].bingAfterTimeout
            /\ (req[r].pc = "done" => req[r].status = 504)

\* C10: the word_count of every ScrapedContent scrape_url returns is the sum
\* of the whitespace-delimited token counts of exactly the blocks of its
\* content list, also when more than 25 blocks were extracted.
C10_WordCountOfContent ==
    (scrPc = "returned" /\ ~scrOut.none) =>
        scrOut.word_count = SumTokens(scrOut.content, 1)

\* the texts of the paragraphs the page holds outside the removed elements
ParagraphTexts(page) ==
    LET ps == ParagraphsFrom(Decompose(page), 1)
    IN  {GetText(ps[i]) : i \in 1..Len(ps)}

\* C11: for a page with k <= 25 distinct paragraphs of more than 50 characters
\* and any number of short paragraphs, scrape_url returns exactly k content
\* blocks and no block is the text of a short paragraph, however the
\* paragraphs are nested.
C11_OneBlockPerParagraph ==
    LET texts == ParagraphTexts(scrPage)
        long == {t \in texts : Len(t) > MinBlockLen}
    IN  (scrPc = "returned" /\ Cardinality(long) <= MaxBlocks) =>
            /\ Len(scrOut.content) = Cardinality(long)
            /\ \A i \in 1..Len(scrOut.content) :
                   \A t \in texts \ long : scrOut.content[i] # sanitize_text(t)

\* C12: on every provider path search_comprehensive returns at most
\* min(n, 20) organic results for the requested count n >= 1, whether or not
\* the caller clamped n to 20, and at most 10 related questions.
C12_AtMostCapResults ==
    extPc = "returned" =>
        /\ Len(extOut) <= (IF extNum < ResultCap THEN extNum ELSE ResultCap)
        /\ Len(extQOut) <= QuestionCap

\* C15: every related question returned, from the Google path and from the
\* Bing path, has a text that ends with '?' and is longer than 10 characters.
C15_QuestionsWellFormed ==
    extPc = "returned" =>
        \A i \in 1..Len(extQOut) :
            /\ EndsWithQuestionMark(extQOut[i])
            /\ Len(extQOut[i]) > MinQuestionLen

\* C13: the engine_url of the response of a search request is the URL last
\* fetched for that same request (the Bing URL when it ended on Bing), also
\* with several requests in progress on the shared scraper instance.
C13_OwnEngineUrl ==
    [][\A r \in Reqs :
          Responds(r) =>
              engine_url =
                  SearchUrl(r, IF req'[r].bing = "no" THEN "google" ELSE "bing")]_vars

\* C14: every OrganicResult returned by any provider path of either scraper
\* has a snippet of at most 300 characters.
C14_SnippetAtMost300 ==
    extPc = "returned" =>
        \A i \in 1..Len(extOut) : extOut[i].snippet <= SnippetLimit

\* the marker occurs in the text at index i in some letter case
MatchAtAnyCase(text, i, marker) ==
    /\ i + Len(marker) - 1 <= Len(text)
    /\ \A k \in 1..Len(marker) :
           \/ text[i + k - 1] = marker[k]
           \/ \E j \in 1..Len(LowerLetters) :
                  LowerLetters[j] = marker[k] /\ text[i + k - 1] = UpperLetters[j]

HasMarker(text) ==
    \E i \in 1..Len(text) :
        MatchAtAnyCase(text, i, TrafficMarker)
            \/ MatchAtAnyCase(text, i, RecaptchaMarker)

\* C16: the block check classifies the fetched markup as blocked whenever it
\* contains 'unusual traffic' (or the 'recaptcha' marker) in any letter case,
\* and as clear whenever it contains neither.
C16_BlockedIffMarker ==
    clsPc = "classified" =>
        (clsOut = "blocked" <=> HasMarker(clsMarkup))

\* a markup with 'Unusual Traffic' in mixed case, put together from two
\* pieces, classified as blocked
C16_Witness ==
    /\ clsPc = "classified"
    /\ clsOut = "blocked"
    /\ ~Contains(clsMarkup, TrafficMarker)
    /\ ~Contains(clsMarkup, RecaptchaMarker)
    /\ \E i \in 2..Len(clsMarkup) : MatchAtAnyCase(clsMarkup, i, TrafficMarker)

\* C17: when the Google fetch of a search fails with a navigation timeout or a
\* transport/driver exception, the search switches to Bing, for both
\* scrapers.
C17_GoogleFailureFallsBack ==
    \A r \in Reqs :
        (/\ req[r].pc = "done"
         /\ req[r].googleFailed
         /\ ~req[r].timedOut) => req[r].bing # "no"

\* C18: once the caller of a request has received the timeout outcome, no
\* browser work of that request goes on: the request is at none of its browser
\* operations and the executor's worker thread is not running its job.
C18_TimeoutStopsBrowserWork ==
    \A r \in Reqs :
        (req[r].pc = "done" /\ req[r].status = 504) =>
            /\ req[r].pc \notin BrowserPcs
            /\ exJob # r

\* C19: when a search call of the universal scraper has completed, on any exit
\* path, the context and the page it created are closed.
C19_ContextAndPageClosed ==
    \A r \in Reqs :
        req[r].pc = "done" => ~req[r].hasCtx /\ ~req[r].hasPage

\* the typed-query path of request r is entered in this step: the first
\* page.goto("https://www.google.com") of the alternative approach, or the call
\* of _try_alternative_google_search in the worker thread
RetryStarts(r) ==
    \/ req[r].pc # "retry" /\ req'[r].pc = "retry"
    \/ exJob = r /\ exPc # "retry" /\ exPc' = "retry"

\* C20: within one request the typed-query retry starts exactly when the
\* direct-URL fetch is first detected as blocked; the detection is never
\* withdrawn, so the retry starts at most once and never without a block.
C20_RetryOnceIffBlocked ==
    [][\A r \in Reqs :
          /\ RetryStarts(r) <=> (~req[r].blocked1 /\ req'[r].blocked1)
          /\ req[r].blocked1 => req'[r].blocked1]_vars

\* a blocked request that went through the retry and returned Google results
C20_Witness ==
    \E r \in Reqs :
        /\ req[r].pc = "done"
        /\ req[r].blocked1
        /\ req[r].result = "google"
        /\ req[r].bing = "no"

\* what strategy k accepts on the markup when it runs on its own
AcceptedBy(k) == ScanStrategy(extMarkup, 1, k, EmptyAcc).results

\* C21: the Google results returned come from one strategy k: the strategies
\* before k accepted nothing on the same markup, the results are those of k
\* alone (no other strategy added to them), and results of the last-resort
\* anchor scan (strategy 0) are returned only when every strategy accepted
\* nothing.
C21_FirstSuccessfulStrategyOnly ==
    (extPc = "returned" /\ extPath = "google" /\ extOut # <<>>) =>
        LET k == extOut[1].strategy
        IN  /\ \A i \in 1..Len(extOut) : extOut[i].strategy = k
            /\ k >= 1 =>
                 /\ \A j \in 1..(k - 1) : AcceptedBy(j) = <<>>
                 /\ extOut = Truncate(AcceptedBy(k), extNum)
            /\ k = 0 =>
                 \A j \in 1..NumStrategies(extScraper) : AcceptedBy(j) = <<>>

\* results of the third strategy are returned, after two that found nothing
C21_Witness ==
    /\ extPc = "returned"
    /\ extPath = "google"
    /\ extOut # <<>>
    /\ extOut[1].strategy = 3

\* C25: every link returned starts with http and is outside the provider's own
\* domains: no Google-path link is a google.com URL, no Bing-path link is a
\* bing.com URL (a redirect that was not decoded included).
C25_LinksOutsideProvider ==
    extPc = "returned" =>
        \A i \in 1..Len(extOut) :
            /\ StartsWithHttp(extOut[i].link)
            /\ extPath = "google" => ~GoogleExcluded(extOut[i].link)
            /\ extPath = "bing" => ~BingExcluded(extOut[i].link)

\* the elements of the page that can yield a block, in document order: each
\* container is followed by the paragraphs in it
RECURSIVE DocumentElements(_, _)
DocumentElements(page, i) ==
    IF i > Len(page) THEN <<>>
    ELSE (IF page[i].tag = "p" THEN <<page[i]>>
          ELSE <<page[i]>> \o ParagraphsFrom(<<page[i]>>, 1))
         \o DocumentElements(page, i + 1)

\* C26: the content returned by scrape_url has at most 25 blocks, no empty
\* block, no block twice, and the blocks stand in the document order of the
\* elements they were taken from (the first element with that text).
C26_BlocksInDocumentOrder ==
    (scrPc = "returned" /\ ~scrOut.none) =>
        LET content == scrOut.content
            elements == DocumentElements(Decompose(scrPage), 1)
            texts == [i \in 1..Len(elements) |-> sanitize_text(GetText(elements[i]))]
            Place(b) == CHOOSE i \in 1..Len(texts) :
                            /\ texts[i] = b
                            /\ \A j \in 1..(i - 1) : texts[j] # b
        IN  /\ Len(content) <= MaxBlocks
            /\ \A i \in 1..Len(content) : content[i] # <<>>
            /\ \A i, j \in 1..Len(content) : i # j => content[i] # content[j]
            /\ \A i \in 1..(Len(content) - 1) :
                   Place(content[i]) < Place(content[i + 1])

\* a browser fetch ends in this step with the given outcome
FetchEnds(outcome) ==
    /\ Len(attempts') = Len(attempts) + 1
    /\ attempts'[Len(attempts')].outcome = outcome

\* C22: when a fetch through a proxy fails with a proxy error, that proxy is in
\* the failed set of the pool by the time the fetch returns its outcome.
C22_FailedProxyReported ==
    [][FetchEnds("proxy_error") =>
          attempts'[Len(attempts')].proxy \in failed_proxies']_vars

\* C23: every browser fetch draws a profile and, when proxies are configured, a
\* proxy for itself.
C23_IdentityDrawnPerAttempt ==
    \A i \in 1..Len(attempts) :
        /\ "profile" \in attempts[i].drew
        /\ ProxyEnabled(proxies) => "proxy" \in attempts[i].drew

\* C29: with a proxy configured, the browser UniversalScraper has launched
\* (by initialize or by restart_browser) uses a proxy.
C29_LaunchKeepsProxy ==
    (lchScraper = "universal" /\ ProxyEnabled(proxies) /\ browser.up) =>
        browser.proxy # NoProxy

\* C24: a direct-URL /scrape request calls scrape_url at most 3 times and
\* stops at the first attempt that returns content; it ends with 504 exactly
\* when the third attempt times out, with 422 when no attempt returned
\* content and the third did not time out, and with success otherwise.
C24_ScrapeRetryLoop ==
    (apiReq.endpoint = "scrape" /\ apiReq.pc \in {"middleware", "done"}) =>
        LET log == apiReq.log
            n == Len(log)
            gotContent == \E i \in 1..n : log[i] = "content"
            lastTimedOut == n = ScrapeAttempts /\ log[n] = "timeout"
        IN  /\ n \in 1..ScrapeAttempts
            /\ \A i \in 1..(n - 1) : log[i] # "content"
            /\ ~gotContent => n = ScrapeAttempts
            /\ apiReq.status = 504 <=> lastTimedOut
            /\ apiReq.status = 422 <=> (~gotContent /\ ~lastTimedOut)
            /\ apiReq.status = 200 <=> gotContent

\* content came at the third attempt, after an empty attempt and a timeout
C24_Witness ==
    /\ apiReq.endpoint = "scrape"
    /\ apiReq.pc = "done"
    /\ apiReq.log = <<"None", "timeout", "content">>
    /\ apiReq.status = 200

\* C28: over any sequence of requests, failed_requests has grown by exactly
\* one for every request answered with a status >= 400.
C28_OneFailurePerErrorResponse ==
    apiReq.pc \in {"idle", "done"} => failed_requests = errors

\* C27: after two requests have both finished re-initialising, the scraper
\* holds a live browser, and every browser that was started and is not the
\* current one has been closed.
C27_ReinitLeavesOneBrowser ==
    (\A r \in Reiniters : rq[r].pc = "done") =>
        /\ handle # 0
        /\ instances[handle] = "open"
        /\ \A i \in InstanceIds : instances[i] = "open" => i = handle

\* C30: a bulk request of 1 to 5 queries is answered with one entry per query
\* in input order, an error entry exactly for the queries whose search failed
\* (the later queries are searched all the same), and successful_queries +
\* failed_queries = total_queries; a list of 0 or of more than 5 queries is
\* answered with 400 and no search is run.
C30_OneEntryPerQuery ==
    bulkPc = "done" =>
        IF Len(bulkQueries) \in 1..MaxQueries
        THEN /\ bulkResponse.status = 200
             /\ Len(bulkOutcomes) = Len(bulkQueries)
             /\ Len(bulkResults) = Len(bulkQueries)
             /\ \A i \in 1..Len(bulkQueries) :
                    /\ bulkResults[i].query = bulkQueries[i]
                    /\ bulkResults[i].error <=> bulkOutcomes[i] = "raises"
             /\ bulkResponse.total_queries = Len(bulkQueries)
             /\ bulkResponse.successful_queries + bulkResponse.failed_queries
                    = bulkResponse.total_queries
        ELSE /\ bulkResponse.status = 400
             /\ bulkOutcomes = <<>>
             /\ bulkResults = <<>>

\* five queries answered, the second failed and the later ones were searched
C30_Witness ==
    /\ bulkPc = "done"
    /\ Len(bulkQueries) = MaxQueries
    /\ bulkOutcomes = <<"ok", "raises", "ok", "ok", "ok">>
    /\ bulkResults[2].error
    /\ ~bulkResults[3].error
    /\ bulkResponse.failed_queries = 1

====
